---------------------------- MODULE Spec2Model ----------------------------
(***************************************************************************)
(* TakeoutDates (src/main.cpp): a run of main() over one takeout folder.   *)
(*                                                                         *)
(* Strings whose characters the program inspects (command-line arguments,  *)
(* people names, timestamp fields) are sequences of ASCII codes.  A file   *)
(* name is the record [stem, ext, sfx]: "IMG_1" + "." + "HEIC" + sfx,      *)
(* where sfx is "" for a media file and one of the two metadata suffixes   *)
(* for a sidecar.                                                          *)
(***************************************************************************)
EXTENDS Naturals, Sequences, FiniteSets

VARIABLES
    argv,            \* argv[2..argc-1]: the options after the folder argument
    folderExists,    \* fs::exists(folder)
    build,           \* the build: "posix" (libstdc++), "apple" (libc++), "win32"
    caseInsensitive, \* the volume folds the case of names
    dir,             \* the directory entries of the folder
    linked,          \* IMG_1.MP4 and IMG_1.mp4 are hard links to one file
    readOnly,        \* media entries that cannot be opened for writing
    meta,            \* sidecar entry -> content of the file
    pc,              \* "start", "walk", "exited", "terminated"
    exitCode,        \* the status the process ended with
    flags,           \* the locals of main() set by the option loop
    allPeopleTags,   \* std::set<std::string> allPeopleTags
    pending,         \* metadata files the directory iterator has not yielded yet
    order,           \* metadata files in the order they were yielded (this run)
    mtime,           \* file -> modification time
    btime,           \* file -> creation (birth) time
    out,             \* std::cout, one record per line
    err,             \* std::cerr diagnostics, one record per line
    calls,           \* the calls made to the mutation drivers, in order
    run,             \* "first" or "second" invocation on the same folder
    firstRun         \* what the first invocation left behind (order and times)

vars == <<argv, folderExists, build, caseInsensitive, dir, linked, readOnly, meta,
          pc, exitCode, flags, allPeopleTags, pending, order, mtime, btime,
          out, err, calls, run, firstRun>>

-----------------------------------------------------------------------------
(* Bounds of the model *)

\* at most this many metadata files in the folder
MaxSidecars == 2

\* at most this many option tokens on the command line (specification SpecArgs)
MaxArgs == 2

-----------------------------------------------------------------------------
(* Strings *)

Semicolon == <<59>>

OptHelp == <<45, 45, 104, 101, 108, 112>>                    \* "--help"
OptList == <<45, 45, 108, 105, 115, 116>>                    \* "--list"
OptSetFileDates ==                                           \* "--set-file-dates"
    <<45, 45, 115, 101, 116, 45, 102, 105, 108, 101, 45, 100, 97, 116, 101, 115>>
OptListTags ==                                               \* "--list-tags"
    <<45, 45, 108, 105, 115, 116, 45, 116, 97, 103, 115>>
OptAssignPeopleTags ==                                       \* "--assign-people-tags"
    <<45, 45, 97, 115, 115, 105, 103, 110, 45, 112, 101, 111, 112, 108, 101, 45,
      116, 97, 103, 115>>
OptAssignAllPeopleTags ==                                    \* "--assign-all-people-tags"
    <<45, 45, 97, 115, 115, 105, 103, 110, 45, 97, 108, 108, 45, 112, 101, 111,
      112, 108, 101, 45, 116, 97, 103, 115>>
OptRemoveAllTags ==                                          \* "--remove-all-tags"
    <<45, 45, 114, 101, 109, 111, 118, 101, 45, 97, 108, 108, 45, 116, 97, 103, 115>>
OptRemoveNamedTags ==                                        \* "--remove-named-tags"
    <<45, 45, 114, 101, 109, 111, 118, 101, 45, 110, 97, 109, 101, 100, 45, 116,
      97, 103, 115>>
OptBogus == <<45, 45, 98, 111, 103, 117, 115>>               \* "--bogus"

NameAl == <<65, 108>>                                        \* "Al"
NameB  == <<66>>                                             \* "B"
NameBo == <<66, 111>>                                        \* "Bo"
TagsArg == <<59, 66, 111, 59, 59, 65, 108>>                  \* ";Bo;;Al"

\* std::string operator< : lexicographic comparison of the bytes
RECURSIVE StrLess(_, _)
StrLess(a, b) ==
    IF b = <<>> THEN FALSE
    ELSE IF a = <<>> THEN TRUE
    ELSE IF Head(a) # Head(b) THEN Head(a) < Head(b)
    ELSE StrLess(Tail(a), Tail(b))

\* faulty variant: the set is ordered by std::greater
RECURSIVE SetInReverseOrder(_)
SetInReverseOrder(S) ==
    IF S = {} THEN <<>>
    ELSE LET m == CHOOSE x \in S : \A y \in S \ {x} : StrLess(y, x)
         IN  <<m>> \o SetInReverseOrder(S \ {m})

\* iteration over a std::set<std::string>: ascending order
RECURSIVE SetInOrder(_)
SetInOrder(S) ==
    IF S = {} THEN <<>>
    ELSE LET m == CHOOSE x \in S : \A y \in S \ {x} : StrLess(x, y)
         IN  <<m>> \o SetInOrder(S \ {m})

\* the tokens std::getline(ss, tag, ';') yields, in order (empty ones included)
RECURSIVE GetLines(_, _)
GetLines(s, cur) ==
    IF s = <<>> THEN (IF cur = <<>> THEN <<>> ELSE <<cur>>)
    ELSE IF <<Head(s)>> = Semicolon THEN <<cur>> \o GetLines(Tail(s), <<>>)
    ELSE GetLines(Tail(s), Append(cur, Head(s)))

\* the loop "while (std::getline(ss, tag, ';')) if (!tag.empty()) push_back(tag)"
SplitTags(tagsArg) == SelectSeq(GetLines(tagsArg, <<>>), LAMBDA t : t # <<>>)

\* std::stol on a string of decimal digits
RECURSIVE Stol(_, _)
Stol(s, acc) ==
    IF s = <<>> THEN acc ELSE Stol(Tail(s), 10 * acc + (Head(s) - 48))

Range(s) == {s[i] : i \in 1..Len(s)}

-----------------------------------------------------------------------------
(* File names and the file system *)

Stem == "IMG_1"
LongSuffix  == ".supplemental-metadata.json"
ShortSuffix == ".suppl.json"
Suffixes == {LongSuffix, ShortSuffix}
MediaExts == {"HEIC", "MP4", "mp4"}

File(ext, sfx) == [stem |-> Stem, ext |-> ext, sfx |-> sfx]

MediaNames   == {File(e, "") : e \in MediaExts}
SidecarNames == {File(e, s) : e \in MediaExts, s \in Suffixes}

\* the name a case-insensitive volume compares
Fold(p) == [p EXCEPT !.ext = IF @ = "mp4" THEN "MP4" ELSE @]

SameName(p, q) == IF caseInsensitive THEN Fold(p) = Fold(q) ELSE p = q

\* fs::exists(p)
Exists(p) == \E e \in dir : SameName(e, p)

\* the file a path resolves to
FileOf(p) ==
    LET e == CHOOSE d \in dir : SameName(d, p)
    IN  IF linked /\ e.sfx = "" /\ e.ext \in {"MP4", "mp4"}
        THEN File("MP4", "") ELSE e

Files == {FileOf(e) : e \in {d \in dir : d.sfx = ""}}

\* fs::equivalent(p, q), called with p existing: "same", "different" or
\* "throws" (a missing q is an error the libc++ and MSVC libraries report,
\* thrown as filesystem_error by this overload; libstdc++ returns false)
Equivalent(p, q) ==
    IF Exists(q) THEN (IF FileOf(p) = FileOf(q) THEN "same" ELSE "different")
    ELSE IF build = "posix" THEN "different" ELSE "throws"

-----------------------------------------------------------------------------
(* Metadata files *)

\* "1000", "2000", "1500", "2500", "2600"
Digits1000 == <<49, 48, 48, 48>>
Digits2000 == <<50, 48, 48, 48>>
Digits1500 == <<49, 53, 48, 48>>
Digits2500 == <<50, 53, 48, 48>>
Digits2600 == <<50, 54, 48, 48>>

Person(name) == [hasName |-> TRUE, name |-> name]
Nameless     == [hasName |-> FALSE, name |-> <<>>]

AllFields == {"photoTakenTime", "creationTime", "people"}

\* {"photoTakenTime":{"timestamp":"1000"},"creationTime":{"timestamp":"2000"},
\*  "people":[{"name":"Bo"},{"name":"Al"}]}
MetaA == [json |-> TRUE, fields |-> AllFields,
          photoTakenTime |-> Digits1000, creationTime |-> Digits2000,
          people |-> <<Person(NameBo), Person(NameAl)>>]
\* other timestamps, a people entry without a name, a repeated name
MetaB == [json |-> TRUE, fields |-> AllFields,
          photoTakenTime |-> Digits1500, creationTime |-> Digits2500,
          people |-> <<Person(NameBo), Nameless, Person(NameB), Person(NameBo)>>]
\* valid JSON without photoTakenTime
MetaNoTaken == [json |-> TRUE, fields |-> {"creationTime", "people"},
                photoTakenTime |-> <<>>, creationTime |-> Digits2600,
                people |-> <<Person(NameAl)>>]
\* not JSON
MetaBroken == [json |-> FALSE, fields |-> {},
               photoTakenTime |-> <<>>, creationTime |-> <<>>, people |-> <<>>]

\* the entries the loop of main() hands to processFile
MetadataFiles == {e \in dir : e.sfx \in Suffixes}

-----------------------------------------------------------------------------
(* The timestamp driver *)

\* setCreationTime(path, creationTime) of mac_tags.h: sets the birth time
SetCreationTime(tm, filePath, creationTime) ==
    [ok |-> TRUE, mtime |-> tm.mtime,
     btime |-> [tm.btime EXCEPT ![FileOf(filePath)] = creationTime]]

\* CreateFileA(..., GENERIC_WRITE, ..., OPEN_EXISTING, ...) / open(path, O_WRONLY)
CanOpenForWriting(filePath) ==
    Exists(filePath) /\ FileOf(filePath) \notin readOnly

\* faulty variant: the two times are added to the ones the file has
SetFileTimesRelative(tm, filePath, photoTakenTime, creationTime) ==
    IF ~CanOpenForWriting(filePath)
    THEN [ok |-> FALSE, mtime |-> tm.mtime, btime |-> tm.btime]
    ELSE [ok |-> TRUE,
          mtime |-> [tm.mtime EXCEPT ![FileOf(filePath)] = @ + creationTime],
          btime |-> [tm.btime EXCEPT ![FileOf(filePath)] = @ + photoTakenTime]]

\* setFileTimes(filePath, photoTakenTime, creationTime) on the times tm
SetFileTimes(tm, filePath, photoTakenTime, creationTime) ==
    IF ~CanOpenForWriting(filePath)
    THEN [ok |-> FALSE, mtime |-> tm.mtime, btime |-> tm.btime]
    ELSE IF build = "win32"
    THEN [ok |-> TRUE,
          mtime |-> [tm.mtime EXCEPT ![FileOf(filePath)] = creationTime],
          btime |-> [tm.btime EXCEPT ![FileOf(filePath)] = photoTakenTime]]
    ELSE LET modified ==
                 [mtime |-> [tm.mtime EXCEPT ![FileOf(filePath)] = creationTime],
                  btime |-> tm.btime]
         IN  IF build = "apple"
             THEN SetCreationTime(modified, filePath, photoTakenTime)
             ELSE [ok |-> TRUE, mtime |-> modified.mtime, btime |-> modified.btime]

-----------------------------------------------------------------------------
(* processFile: the paths of a record *)

\* parentDir / baseFileName
PrimaryPath(jsonPath) == [jsonPath EXCEPT !.sfx = ""]

\* primaryPath.stem()
PrimaryStem(primaryPath) == primaryPath.stem

CompanionPath(primaryStem, ext) == [stem |-> primaryStem, ext |-> ext, sfx |-> ""]

\* faulty variant: the ".MP4.suppl.json" sidecar is not looked for
IncludeUpperLongOnly(primaryStem) ==
    LET mp4Path == CompanionPath(primaryStem, "MP4")
    IN  /\ Exists(mp4Path)
        /\ ~Exists([mp4Path EXCEPT !.sfx = LongSuffix])

\* fs::exists(mp4Path) && !fs::exists(mp4JsonPath) && !fs::exists(mp4SupplJsonPath)
IncludeUpper(primaryStem) ==
    LET mp4Path == CompanionPath(primaryStem, "MP4")
    IN  /\ Exists(mp4Path)
        /\ ~Exists([mp4Path EXCEPT !.sfx = LongSuffix])
        /\ ~Exists([mp4Path EXCEPT !.sfx = ShortSuffix])

\* the condition on mp4LowerPath, evaluated left to right:
\* "include", "skip", or "throws" when fs::equivalent throws
LowerGuard(primaryStem) ==
    LET mp4LowerPath == CompanionPath(primaryStem, "mp4")
        mp4Path      == CompanionPath(primaryStem, "MP4")
    IN  IF /\ Exists(mp4LowerPath)
           /\ ~Exists([mp4LowerPath EXCEPT !.sfx = LongSuffix])
           /\ ~Exists([mp4LowerPath EXCEPT !.sfx = ShortSuffix])
        THEN LET eq == Equivalent(mp4LowerPath, mp4Path)
             IN  IF eq = "throws" THEN "throws"
                 ELSE IF eq = "same" THEN "skip" ELSE "include"
        ELSE "skip"

Target(site, path) == [site |-> site, path |-> path]

\* the paths --list prints for a record, in order
ListTargets(primaryPath) ==
    LET primaryStem == PrimaryStem(primaryPath)
    IN  <<Target("primary", primaryPath)>>
        \o (IF IncludeUpper(primaryStem)
            THEN <<Target("MP4", CompanionPath(primaryStem, "MP4"))>> ELSE <<>>)

\* the paths the mutating branches call their driver on, in order, and whether
\* the branch ends by an exception after them
MutateTargets(primaryPath) ==
    LET primaryStem == PrimaryStem(primaryPath)
        guard       == LowerGuard(primaryStem)
    IN  [targets |->
            <<Target("primary", primaryPath)>>
            \o (IF IncludeUpper(primaryStem)
                THEN <<Target("MP4", CompanionPath(primaryStem, "MP4"))>> ELSE <<>>)
            \o (IF guard = "include"
                THEN <<Target("mp4", CompanionPath(primaryStem, "mp4"))>> ELSE <<>>),
         throws |-> guard = "throws"]

-----------------------------------------------------------------------------
(* processFile *)

NoPath == [stem |-> "", ext |-> "", sfx |-> ""]

\* one line of std::cout: the CSV header, a CSV row (the values handed to
\* escapeCSV, formatTime and joinCSV), the "Unique People Tags:" line, a tag
OutLine(line, jsonPath, path, photoTakenTime, creationTime, people) ==
    [line |-> line, json |-> jsonPath, path |-> path,
     photoTakenTime |-> photoTakenTime, creationTime |-> creationTime,
     people |-> people]

ErrLine(msg, path) == [msg |-> msg, path |-> path]

\* one call of a mutation driver
Call(jsonPath, target, fn, photoTakenTime, creationTime, tags, ok) ==
    [json |-> jsonPath, site |-> target.site, fn |-> fn, path |-> target.path,
     photoTakenTime |-> photoTakenTime, creationTime |-> creationTime,
     tags |-> tags, ok |-> ok]

\* the loop over j["people"]: the names of the entries that have one
PeopleNames(j) ==
    IF "people" \in j.fields
    THEN LET named == SelectSeq(j.people, LAMBDA person : person.hasName)
         IN  [i \in 1..Len(named) |-> named[i].name]
    ELSE <<>>

\* faulty variant: the setDates branch is tested before the listOnly branch
ModeSetDatesFirst(f) ==
    IF f.setDates THEN "setDates"
    ELSE IF f.listOnly THEN "list"
    ELSE IF build = "apple" /\ f.assignPeopleTags THEN "assignPeopleTags"
    ELSE IF build = "apple" /\ f.assignAllPeopleTags THEN "assignAllPeopleTags"
    ELSE IF build = "apple" /\ f.removeAllTags THEN "removeAllTags"
    ELSE IF build = "apple" /\ f.removeNamedTags THEN "removeNamedTags"
    ELSE "none"

\* the branch of the if / else-if chain that runs for a record
Mode(f) ==
    IF f.listOnly THEN "list"
    ELSE IF f.setDates THEN "setDates"
    ELSE IF build = "apple" /\ f.assignPeopleTags THEN "assignPeopleTags"
    ELSE IF build = "apple" /\ f.assignAllPeopleTags THEN "assignAllPeopleTags"
    ELSE IF build = "apple" /\ f.removeAllTags THEN "removeAllTags"
    ELSE IF build = "apple" /\ f.removeNamedTags THEN "removeNamedTags"
    ELSE "none"

\* the tags --assign-people-tags applies for a record
TagsToApply(peopleTagsToAssign, peopleNames) ==
    SelectSeq(peopleTagsToAssign, LAMBDA tag : tag \in Range(peopleNames))

\* faulty variant: the branch returns at the first setFileTimes that fails
RECURSIVE SetDatesCallsUntilFailure(_, _, _, _, _)
SetDatesCallsUntilFailure(jsonPath, targets, done, photoTakenTime, creationTime) ==
    IF targets = <<>> THEN done
    ELSE LET r == SetFileTimes(done, Head(targets).path, photoTakenTime, creationTime)
             now == [mtime |-> r.mtime, btime |-> r.btime,
                     calls |-> Append(done.calls,
                                      Call(jsonPath, Head(targets), "setFileTimes",
                                           photoTakenTime, creationTime, <<>>, r.ok))]
         IN  IF r.ok
             THEN SetDatesCallsUntilFailure(jsonPath, Tail(targets), now,
                                            photoTakenTime, creationTime)
             ELSE now

\* the setFileTimes calls of the setDates branch, one after the other; done
\* holds the times and the calls so far
RECURSIVE SetDatesCalls(_, _, _, _, _)
SetDatesCalls(jsonPath, targets, done, photoTakenTime, creationTime) ==
    IF targets = <<>> THEN done
    ELSE LET r == SetFileTimes(done, Head(targets).path, photoTakenTime, creationTime)
         IN  SetDatesCalls(jsonPath, Tail(targets),
                           [mtime |-> r.mtime, btime |-> r.btime,
                            calls |-> Append(done.calls,
                                             Call(jsonPath, Head(targets),
                                                  "setFileTimes", photoTakenTime,
                                                  creationTime, <<>>, r.ok))],
                           photoTakenTime, creationTime)

\* the calls of a tag branch: fn(path, tags) on every target
TagCalls(jsonPath, targets, fn, tags) ==
    [i \in 1..Len(targets) |-> Call(jsonPath, targets[i], fn, 0, 0, tags, TRUE)]

Returned(tm, tagSet, outLines, errLines, callsMade, thrown) ==
    [mtime |-> tm.mtime, btime |-> tm.btime, allPeopleTags |-> tagSet,
     out |-> outLines, err |-> errLines, calls |-> callsMade, thrown |-> thrown]

\* processFile(jsonPath, ...) with the flags f, on the times tm and the
\* accumulator tagSet; thrown names the exception that leaves it, if any
ProcessFile(jsonPath, f, tm, tagSet) ==
    LET j           == meta[jsonPath]
        primaryPath == PrimaryPath(jsonPath)
    IN
    IF ~j.json
    THEN Returned(tm, tagSet, <<>>, <<ErrLine("Error parsing JSON", jsonPath)>>,
                  <<>>, "none")
    ELSE IF ~Exists(primaryPath) /\ ~f.listTags
    THEN Returned(tm, tagSet, <<>>,
                  <<ErrLine("Primary file does not exist", primaryPath)>>,
                  <<>>, "none")
    ELSE IF "photoTakenTime" \notin j.fields \/ "creationTime" \notin j.fields
    THEN \* .get<std::string>() on a null value: json::type_error, caught nowhere
         Returned(tm, tagSet, <<>>, <<>>, <<>>, "json::type_error")
    ELSE
    LET photoTakenTime == Stol(j.photoTakenTime, 0)
        creationTime   == Stol(j.creationTime, 0)
        peopleNames    == PeopleNames(j)
        tagSet2        == IF f.listTags THEN tagSet \cup Range(peopleNames)
                          ELSE tagSet
        mode           == Mode(f)
        mt             == MutateTargets(primaryPath)
        thrown         == IF mt.throws THEN "filesystem_error" ELSE "none"
    IN
    IF mode = "list"
    THEN LET lt == ListTargets(primaryPath)
         IN  Returned(tm, tagSet2,
                      [i \in 1..Len(lt) |->
                          OutLine("row", jsonPath, lt[i].path, photoTakenTime,
                                  creationTime, peopleNames)],
                      <<>>, <<>>, "none")
    ELSE IF mode = "setDates"
    THEN LET r == SetDatesCalls(jsonPath, mt.targets,
                                [mtime |-> tm.mtime, btime |-> tm.btime,
                                 calls |-> <<>>],
                                photoTakenTime, creationTime)
         IN  Returned(r, tagSet2, <<>>, <<>>, r.calls, thrown)
    ELSE IF mode = "assignPeopleTags"
    THEN LET tagsToApply == TagsToApply(f.peopleTagsToAssign, peopleNames)
         IN  IF tagsToApply # <<>>
             THEN Returned(tm, tagSet2, <<>>, <<>>,
                           TagCalls(jsonPath, mt.targets, "setFinderTags",
                                    tagsToApply), thrown)
             ELSE Returned(tm, tagSet2, <<>>, <<>>, <<>>, "none")
    ELSE IF mode = "assignAllPeopleTags"
    THEN IF peopleNames # <<>>
         THEN Returned(tm, tagSet2, <<>>, <<>>,
                       TagCalls(jsonPath, mt.targets, "setFinderTags", peopleNames),
                       thrown)
         ELSE Returned(tm, tagSet2, <<>>, <<>>, <<>>, "none")
    ELSE IF mode = "removeAllTags"
    THEN Returned(tm, tagSet2, <<>>, <<>>,
                  TagCalls(jsonPath, mt.targets, "removeAllFinderTags", <<>>), thrown)
    ELSE IF mode = "removeNamedTags"
    THEN Returned(tm, tagSet2, <<>>, <<>>,
                  TagCalls(jsonPath, mt.targets, "removeNamedFinderTags",
                           f.tagsToRemove), thrown)
    ELSE Returned(tm, tagSet2, <<>>, <<>>, <<>>, "none")

-----------------------------------------------------------------------------
(* main *)

NoFlags ==
    [result |-> "ok",
     listOnly |-> FALSE, setDates |-> FALSE, listTags |-> FALSE,
     assignPeopleTags |-> FALSE, assignAllPeopleTags |-> FALSE,
     removeAllTags |-> FALSE, removeNamedTags |-> FALSE,
     peopleTagsToAssign |-> <<>>, tagsToRemove |-> <<>>]

\* the option loop "for (int i = 2; i < argc; ++i)", from token i of args on;
\* result is "help" (return 0), "error" (return 1) or "ok" (the loop ended)
RECURSIVE ParseOptions(_, _, _)
ParseOptions(args, i, f) ==
    IF i > Len(args) THEN f
    ELSE LET arg == args[i] IN
    IF arg = OptHelp THEN [f EXCEPT !.result = "help"]
    ELSE IF arg = OptList
    THEN ParseOptions(args, i + 1, [f EXCEPT !.listOnly = TRUE])
    ELSE IF arg = OptSetFileDates
    THEN ParseOptions(args, i + 1, [f EXCEPT !.setDates = TRUE])
    ELSE IF arg = OptListTags
    THEN ParseOptions(args, i + 1, [f EXCEPT !.listTags = TRUE])
    ELSE IF arg = OptAssignPeopleTags /\ i + 1 <= Len(args)
    THEN ParseOptions(args, i + 2,
                      [f EXCEPT !.assignPeopleTags = TRUE,
                                !.peopleTagsToAssign = @ \o SplitTags(args[i + 1])])
    ELSE IF arg = OptAssignAllPeopleTags
    THEN ParseOptions(args, i + 1, [f EXCEPT !.assignAllPeopleTags = TRUE])
    ELSE IF arg = OptRemoveAllTags
    THEN ParseOptions(args, i + 1, [f EXCEPT !.removeAllTags = TRUE])
    ELSE IF arg = OptRemoveNamedTags /\ i + 1 <= Len(args)
    THEN ParseOptions(args, i + 2,
                      [f EXCEPT !.removeNamedTags = TRUE,
                                !.tagsToRemove = @ \o SplitTags(args[i + 1])])
    ELSE [f EXCEPT !.result = "error"]

\* main() up to the traversal: the option loop, the folder check, the CSV header
ParseArgs ==
    /\ pc = "start"
    /\ \E f \in {ParseOptions(argv, 1, NoFlags)} :
       /\ flags' = f
       /\ IF f.result = "help"
          THEN /\ pc' = "exited" /\ exitCode' = "0"
               /\ out' = <<OutLine("usage", NoPath, NoPath, 0, 0, <<>>)>>
               /\ err' = err
          ELSE IF f.result = "error"
          THEN /\ pc' = "exited" /\ exitCode' = "1"
               /\ out' = <<OutLine("usage", NoPath, NoPath, 0, 0, <<>>)>>
               /\ err' = <<ErrLine("Unknown option or missing argument", NoPath)>>
          ELSE IF ~folderExists
          THEN /\ pc' = "exited" /\ exitCode' = "1"
               /\ out' = out
               /\ err' = <<ErrLine("Folder does not exist", NoPath)>>
          ELSE /\ pc' = "walk" /\ exitCode' = exitCode
               /\ out' = IF f.listOnly
                         THEN <<OutLine("header", NoPath, NoPath, 0, 0, <<>>)>>
                         ELSE <<>>
               /\ err' = err
    /\ pending' = MetadataFiles
    /\ UNCHANGED <<argv, folderExists, build, caseInsensitive, dir, linked, readOnly,
                   meta, allPeopleTags, order, mtime, btime, calls, run, firstRun>>

\* one iteration of the traversal loop on a metadata file: processFile on the
\* next entry the directory iterator yields; an exception leaving processFile
\* is caught nowhere and ends the process (std::terminate)
Walk ==
    /\ pc = "walk"
    /\ \E jsonPath \in pending :
          /\ run = "second" => jsonPath = firstRun.order[Len(order) + 1]
          /\ \E r \in {ProcessFile(jsonPath, flags,
                                     [mtime |-> mtime, btime |-> btime],
                                     allPeopleTags)} :
                 /\ mtime' = r.mtime
                 /\ btime' = r.btime
                 /\ allPeopleTags' = r.allPeopleTags
                 /\ out' = out \o r.out
                 /\ err' = err \o r.err
                 /\ calls' = calls \o r.calls
                 /\ IF r.thrown = "none"
                    THEN /\ pc' = pc /\ exitCode' = exitCode
                    ELSE /\ pc' = "terminated" /\ exitCode' = "SIGABRT"
          /\ pending' = pending \ {jsonPath}
          /\ order' = Append(order, jsonPath)
    /\ UNCHANGED <<argv, folderExists, build, caseInsensitive, dir, linked, readOnly,
                   meta, flags, run, firstRun>>

\* the end of main(): the tag list of --list-tags, return 0
Finish ==
    /\ pc = "walk"
    /\ pending = {}
    /\ out' = IF flags.listTags
              THEN LET tags == SetInOrder(allPeopleTags)
                   IN  out \o <<OutLine("tagsHeader", NoPath, NoPath, 0, 0, <<>>)>>
                           \o [i \in 1..Len(tags) |->
                                  OutLine("tag", NoPath, NoPath, 0, 0, <<tags[i]>>)]
              ELSE out
    /\ pc' = "exited"
    /\ exitCode' = "0"
    /\ UNCHANGED <<argv, folderExists, build, caseInsensitive, dir, linked, readOnly,
                   meta, flags, allPeopleTags, pending, order, mtime, btime, err,
                   calls, run, firstRun>>

\* the same command line is run again on the folder as the first run left it,
\* the directory iterator yielding the entries in the same order
Rerun ==
    /\ pc \in {"exited", "terminated"}
    /\ run = "first"
    /\ run' = "second"
    /\ firstRun' = [order |-> order, mtime |-> mtime, btime |-> btime,
                    pc |-> pc, exitCode |-> exitCode]
    /\ pc' = "start"
    /\ exitCode' = "none"
    /\ flags' = NoFlags
    /\ allPeopleTags' = {}
    /\ pending' = {}
    /\ order' = <<>>
    /\ out' = <<>>
    /\ err' = <<>>
    /\ calls' = <<>>
    /\ UNCHANGED <<argv, folderExists, build, caseInsensitive, dir, linked, readOnly,
                   meta, mtime, btime>>

Next == ParseArgs \/ Walk \/ Finish \/ Rerun

-----------------------------------------------------------------------------
(* Initial states: a command line, a build, a folder *)

Builds == {"posix", "apple", "win32"}

\* the folders with at most MaxSidecars metadata files made of the entries in names
Folders(names) ==
    {d \in SUBSET names : Cardinality(d \cap SidecarNames) <= MaxSidecars}

InitOf(argvs, builds, folderFlags, names, contents, locks) ==
    /\ argv \in argvs
    /\ folderExists \in folderFlags
    /\ build \in builds
    /\ caseInsensitive \in BOOLEAN
    /\ dir \in Folders(names)
    /\ caseInsensitive => \A d, e \in dir : Fold(d) = Fold(e) => d = e
    /\ linked \in BOOLEAN
    /\ linked => /\ ~caseInsensitive
                 /\ {File("MP4", ""), File("mp4", "")} \subseteq dir
    /\ readOnly \in {{}} \cup (IF locks THEN {{f} : f \in Files} ELSE {})
    /\ meta \in [MetadataFiles -> contents]
    /\ pc = "start"
    /\ exitCode = "none"
    /\ flags = NoFlags
    /\ allPeopleTags = {}
    /\ pending = {}
    /\ order = <<>>
    /\ mtime = [f \in Files |-> 0]
    /\ btime = [f \in Files |-> 0]
    /\ out = <<>>
    /\ err = <<>>
    /\ calls = <<>>
    /\ run = "first"
    /\ firstRun = [order |-> <<>>, mtime |-> mtime, btime |-> btime,
                   pc |-> "start", exitCode |-> "none"]

\* --list, --set-file-dates, and --set-file-dates together with --list-tags
DatesArgvs == {<<OptList>>, <<OptSetFileDates>>, <<OptListTags, OptSetFileDates>>}

\* every folder, two kinds of valid metadata, every file writable
Init ==
    InitOf(DatesArgvs, {"posix", "apple"}, {TRUE}, MediaNames \cup SidecarNames,
           {MetaA, MetaB}, FALSE)

Spec == Init /\ [][Next]_vars

\* a folder whose sidecars use one suffix per companion extension
FewerNames ==
    MediaNames \cup {File("HEIC", LongSuffix), File("HEIC", ShortSuffix),
                     File("MP4", LongSuffix), File("mp4", ShortSuffix)}

\* --set-file-dates on every build, at most one media file read-only
InitFail ==
    InitOf({<<OptSetFileDates>>}, Builds, {TRUE}, FewerNames, {MetaA, MetaB}, TRUE)

SpecFail == InitFail /\ [][Next]_vars

\* the macOS build with --list-tags or --assign-people-tags; metadata files
\* that are valid, lack photoTakenTime, or are not JSON
InitTags ==
    InitOf({<<OptListTags>>, <<OptAssignPeopleTags, TagsArg>>,
            <<OptAssignPeopleTags, NameAl>>},
           {"apple"}, {TRUE}, FewerNames,
           {MetaA, MetaB, MetaNoTaken, MetaBroken}, FALSE)

SpecTags == InitTags /\ [][Next]_vars

\* --set-file-dates or --list over metadata files that are valid, lack
\* photoTakenTime, or are not JSON
InitSchema ==
    InitOf({<<OptSetFileDates>>, <<OptList>>}, {"posix", "win32"}, {TRUE},
           FewerNames, {MetaA, MetaNoTaken, MetaBroken}, FALSE)

SpecSchema == InitSchema /\ [][Next]_vars

\* every command line of at most MaxArgs tokens, on a folder of IMG_1.HEIC
\* and its sidecar
Tokens ==
    {OptHelp, OptList, OptSetFileDates, OptListTags, OptAssignPeopleTags,
     OptAssignAllPeopleTags, OptRemoveAllTags, OptRemoveNamedTags, OptBogus,
     TagsArg}

Argvs == UNION {[1..n -> Tokens] : n \in 0..MaxArgs}

InitArgs ==
    InitOf(Argvs, {"posix", "apple"}, BOOLEAN,
           {File("HEIC", ""), File("HEIC", LongSuffix)}, {MetaB}, FALSE)

SpecArgs == InitArgs /\ [][Next]_vars

-----------------------------------------------------------------------------
(* What the claims speak of *)

\* the metadata files handed to processFile so far in this run
Visited == Range(order)

\* the record was parsed, its primary was accepted and its timestamps were
\* read: processFile reached the branch of the mode
Dispatched(jsonPath) ==
    /\ jsonPath \in Visited
    /\ meta[jsonPath].json
    /\ Exists(PrimaryPath(jsonPath)) \/ flags.listTags
    /\ {"photoTakenTime", "creationTime"} \subseteq meta[jsonPath].fields

CallsOf(jsonPath) == SelectSeq(calls, LAMBDA c : c.json = jsonPath)
RowsOf(jsonPath)  == SelectSeq(out, LAMBDA l : l.line = "row" /\ l.json = jsonPath)

PathsOf(entries) == [i \in 1..Len(entries) |-> entries[i].path]

\* the paths of a record after its first one, the primary
CompanionPathsOf(entries) == {entries[i].path : i \in 2..Len(entries)}

HasOwnSidecar(path) ==
    \/ Exists([path EXCEPT !.sfx = LongSuffix])
    \/ Exists([path EXCEPT !.sfx = ShortSuffix])

\* the names of the people entries of a metadata file
NamesOf(jsonPath) ==
    {meta[jsonPath].people[i].name :
        i \in {k \in 1..Len(meta[jsonPath].people) : meta[jsonPath].people[k].hasName}}

\* set-file-dates is the mode that runs
SetDatesRuns == flags.setDates /\ ~flags.listOnly

\* the target set of a record as the specification resolves it: the primary,
\* the uppercase companion if it exists without a sidecar of its own, the
\* lowercase companion likewise unless it is the file of a path already
\* included (the primary, or the uppercase companion)
UpperQualifies(stem) ==
    /\ Exists(CompanionPath(stem, "MP4"))
    /\ ~HasOwnSidecar(CompanionPath(stem, "MP4"))

LowerQualifies(primaryPath) ==
    LET mp4LowerPath == CompanionPath(primaryPath.stem, "mp4")
    IN  /\ Exists(mp4LowerPath)
        /\ ~HasOwnSidecar(mp4LowerPath)
        /\ ~(Exists(primaryPath) /\ FileOf(mp4LowerPath) = FileOf(primaryPath))
        /\ ~(/\ UpperQualifies(primaryPath.stem)
             /\ FileOf(mp4LowerPath) = FileOf(CompanionPath(primaryPath.stem, "MP4")))

ResolvedTargets(primaryPath) ==
    <<primaryPath>>
    \o (IF UpperQualifies(primaryPath.stem)
        THEN <<CompanionPath(primaryPath.stem, "MP4")>> ELSE <<>>)
    \o (IF LowerQualifies(primaryPath)
        THEN <<CompanionPath(primaryPath.stem, "mp4")>> ELSE <<>>)

-----------------------------------------------------------------------------
(* C1 *)

\* C1: for every record processed in list mode or in set-file-dates mode, the
\* path stem + ".MP4" is listed / mutated as a companion of the record if and
\* only if it exists and neither of its own sidecars exists; and wherever a
\* ".MP4" path that has a sidecar of its own is listed or mutated, it is as the
\* primary of one of its own sidecars, with the timestamps of that sidecar.
C1_UpperCompanionIffUnclaimed ==
    (flags.listOnly \/ flags.setDates) =>
        \A jsonPath \in Visited :
            Dispatched(jsonPath) =>
                LET entries == IF flags.listOnly THEN RowsOf(jsonPath)
                               ELSE CallsOf(jsonPath)
                    mp4Path == CompanionPath(PrimaryPath(jsonPath).stem, "MP4")
                IN  /\ mp4Path \in CompanionPathsOf(entries)
                         <=> (Exists(mp4Path) /\ ~HasOwnSidecar(mp4Path))
                    /\ \A i \in 1..Len(entries) :
                          (entries[i].path = mp4Path /\ HasOwnSidecar(mp4Path)) =>
                              /\ i = 1
                              /\ PrimaryPath(jsonPath) = mp4Path
                              /\ entries[i].creationTime
                                     = Stol(meta[jsonPath].creationTime, 0)
                              /\ entries[i].photoTakenTime
                                     = Stol(meta[jsonPath].photoTakenTime, 0)

\* a set-file-dates run ended in which IMG_1.MP4 has its own sidecar, that
\* sidecar was visited first and the sidecar of IMG_1.HEIC, with other
\* timestamps, after it, and IMG_1.MP4 carries the time of its own sidecar
C1_Witness ==
    /\ pc = "exited"
    /\ SetDatesRuns
    /\ order = <<File("MP4", ShortSuffix), File("HEIC", LongSuffix)>>
    /\ {File("MP4", ""), File("HEIC", "")} \subseteq dir
    /\ meta[File("MP4", ShortSuffix)] = MetaA
    /\ meta[File("HEIC", LongSuffix)] = MetaB
    /\ Len(CallsOf(File("HEIC", LongSuffix))) = 1
    /\ mtime[File("MP4", "")] = 2000
    /\ mtime[File("HEIC", "")] = 2500

-----------------------------------------------------------------------------
(* C2 *)

\* C2: a metadata file that parses as JSON but has no photoTakenTime.timestamp
\* is skipped with a diagnostic naming it and without a driver call, and the
\* run goes on: the process is not terminated by it.
C2_MissingTimestampIsSkipped ==
    \A jsonPath \in Visited :
        (meta[jsonPath].json /\ "photoTakenTime" \notin meta[jsonPath].fields) =>
            /\ pc \in {"walk", "exited"}
            /\ exitCode \in {"none", "0"}
            /\ \E i \in 1..Len(err) :
                  err[i].path \in {jsonPath, PrimaryPath(jsonPath)}
            /\ CallsOf(jsonPath) = <<>>

-----------------------------------------------------------------------------
(* C3 *)

\* C3: in list mode the rows of a record are its resolved target paths, the
\* primary, the ".MP4" companion and the ".mp4" companion when each qualifies,
\* primary first: the paths set-file-dates mode mutates.
C3_ListRowsAreResolvedTargets ==
    flags.listOnly =>
        \A jsonPath \in Visited :
            Dispatched(jsonPath) =>
                PathsOf(RowsOf(jsonPath)) = ResolvedTargets(PrimaryPath(jsonPath))

-----------------------------------------------------------------------------
(* C5 *)

\* C5: when set-file-dates is the mode that runs, a record whose primary media
\* path does not exist gets no setter call, on the primary or on a companion.
C5_MissingPrimaryNeverMutates ==
    SetDatesRuns =>
        \A jsonPath \in Visited :
            ~Exists(PrimaryPath(jsonPath)) => CallsOf(jsonPath) = <<>>

-----------------------------------------------------------------------------
(* C10 *)

\* C10: in set-file-dates mode the path stem + ".mp4" is mutated as a
\* companion of a record if and only if it exists, neither of its own sidecars
\* exists, and it is not the file of an uppercase companion already included
\* in the target set (nor the primary itself).
C10_LowerCompanionIffQualifies ==
    SetDatesRuns =>
        \A jsonPath \in Visited :
            Dispatched(jsonPath) =>
                (CompanionPath(PrimaryPath(jsonPath).stem, "mp4")
                     \in CompanionPathsOf(CallsOf(jsonPath))
                 <=> LowerQualifies(PrimaryPath(jsonPath)))

-----------------------------------------------------------------------------
(* C4 *)

\* C4: in set-file-dates mode a setter that fails aborts nothing.  The setter
\* is called on every path of every processed record whatever the earlier
\* calls returned; the process is terminated only by a record whose
\* lowercase-companion check throws, never by a failed setter; and a run that
\* completes the traversal has processed every metadata file and exits 0.
C4_SetterFailureAbortsNothing ==
    SetDatesRuns =>
        /\ \A jsonPath \in Visited :
              Dispatched(jsonPath) =>
                  PathsOf(CallsOf(jsonPath))
                      = PathsOf(MutateTargets(PrimaryPath(jsonPath)).targets)
        /\ pc = "terminated" =>
              /\ order # <<>>
              /\ LET last == order[Len(order)]
                 IN  \/ LowerGuard(PrimaryPath(last).stem) = "throws"
                     \/ ~({"photoTakenTime", "creationTime"}
                             \subseteq meta[last].fields)
        /\ (pc = "exited" /\ flags.result = "ok") =>
              /\ exitCode = "0"
              /\ Visited = MetadataFiles

\* a completed set-file-dates run in which a setter failed, a later path of
\* the same record was set, and a later record had its setter called
C4_Witness ==
    /\ pc = "exited"
    /\ exitCode = "0"
    /\ SetDatesRuns
    /\ \E i, k, l \in 1..Len(calls) :
          /\ i < k /\ k < l
          /\ ~calls[i].ok
          /\ calls[k].json = calls[i].json /\ calls[k].ok
          /\ calls[l].json # calls[i].json

-----------------------------------------------------------------------------
(* C6 *)

\* the mode whose effect a record shows: CSV rows, or the driver called for it
ModeApplied(jsonPath) ==
    IF RowsOf(jsonPath) # <<>> THEN "list"
    ELSE IF CallsOf(jsonPath) = <<>> THEN "none"
    ELSE LET first == CallsOf(jsonPath)[1]
         IN  IF first.fn = "setFileTimes" THEN "setDates"
             ELSE IF first.fn = "removeAllFinderTags" THEN "removeAllTags"
             ELSE IF first.fn = "removeNamedFinderTags" THEN "removeNamedTags"
             ELSE IF first.tags = PeopleNames(meta[jsonPath])
             THEN "assignAllPeopleTags"
             ELSE "assignPeopleTags"

\* the modes this build has a branch for
ModesOfBuild ==
    {"list", "setDates"}
    \cup (IF build = "apple"
          THEN {"assignPeopleTags", "assignAllPeopleTags", "removeAllTags",
                "removeNamedTags"}
          ELSE {})

\* the mode of the last mode flag on the command line that the build has a
\* branch for ("none" if there is none); the token after a flag that takes a
\* value is its value
RECURSIVE LastModeFlag(_, _, _)
LastModeFlag(args, i, last) ==
    IF i > Len(args) THEN last
    ELSE LET m == IF args[i] = OptList THEN "list"
                  ELSE IF args[i] = OptSetFileDates THEN "setDates"
                  ELSE IF args[i] = OptAssignPeopleTags THEN "assignPeopleTags"
                  ELSE IF args[i] = OptAssignAllPeopleTags THEN "assignAllPeopleTags"
                  ELSE IF args[i] = OptRemoveAllTags THEN "removeAllTags"
                  ELSE IF args[i] = OptRemoveNamedTags THEN "removeNamedTags"
                  ELSE "none"
             step == IF m \in {"assignPeopleTags", "removeNamedTags"} THEN 2 ELSE 1
         IN  LastModeFlag(args, i + step, IF m \in ModesOfBuild THEN m ELSE last)

\* the modes whose flag was supplied
ModesSupplied ==
    {m \in ModesOfBuild :
        \/ m = "list" /\ flags.listOnly
        \/ m = "setDates" /\ flags.setDates
        \/ m = "assignPeopleTags" /\ flags.assignPeopleTags
        \/ m = "assignAllPeopleTags" /\ flags.assignAllPeopleTags
        \/ m = "removeAllTags" /\ flags.removeAllTags
        \/ m = "removeNamedTags" /\ flags.removeNamedTags}

DispatchOrder ==
    <<"list", "setDates", "assignPeopleTags", "assignAllPeopleTags",
      "removeAllTags", "removeNamedTags">>

\* the first supplied mode in the order of the if / else-if chain
FirstInDispatchOrder ==
    IF ModesSupplied = {} THEN "none"
    ELSE DispatchOrder[CHOOSE i \in 1..Len(DispatchOrder) :
                          /\ DispatchOrder[i] \in ModesSupplied
                          /\ \A k \in 1..(i - 1) : DispatchOrder[k] \notin ModesSupplied]

\* assign-people-tags applies nothing to a record none of whose names is allowed
NothingToAssign(jsonPath) ==
    Range(flags.peopleTagsToAssign) \cap NamesOf(jsonPath) = {}

\* C6 as stated: the mode applied to a record is the mode of the flag that
\* comes last in argument order.
C6_LaterFlagWins ==
    \A jsonPath \in Visited :
        Dispatched(jsonPath) =>
            \/ ModeApplied(jsonPath) = LastModeFlag(argv, 1, "none")
            \/ /\ LastModeFlag(argv, 1, "none") = "assignPeopleTags"
               /\ NothingToAssign(jsonPath)
               /\ ModeApplied(jsonPath) = "none"

\* C6 as amended: the mode applied to a record is the first supplied mode in
\* the fixed order list, set-file-dates, assign-people-tags,
\* assign-all-people-tags, remove-all-tags, remove-named-tags, wherever its
\* flag stands in the argument order.
C6_FirstInDispatchOrderWins ==
    \A jsonPath \in Visited :
        Dispatched(jsonPath) =>
            \/ ModeApplied(jsonPath) = FirstInDispatchOrder
            \/ /\ FirstInDispatchOrder = "assignPeopleTags"
               /\ NothingToAssign(jsonPath)
               /\ ModeApplied(jsonPath) = "none"

\* "--list --set-file-dates": the record was listed and no setter was called
C6_Witness ==
    /\ argv = <<OptList, OptSetFileDates>>
    /\ \E jsonPath \in Visited :
          /\ Dispatched(jsonPath)
          /\ RowsOf(jsonPath) # <<>>
          /\ calls = <<>>

-----------------------------------------------------------------------------
(* C7 *)

\* C7: when set-file-dates mode has run twice in a row on the same folder, the
\* directory iterator yielding the same order, every file has after the second
\* run the modification and birth time it had after the first.
C7_SecondRunChangesNothing ==
    (run = "second" /\ SetDatesRuns /\ pc \in {"exited", "terminated"}) =>
        /\ mtime = firstRun.mtime
        /\ btime = firstRun.btime

\* the second run ended after two records set the same file to different times
C7_Witness ==
    /\ run = "second"
    /\ pc = "exited"
    /\ SetDatesRuns
    /\ \E i, k \in 1..Len(calls) :
          /\ i < k
          /\ calls[i].ok /\ calls[k].ok
          /\ calls[i].path = calls[k].path
          /\ calls[i].creationTime # calls[k].creationTime
    /\ \E f \in Files : mtime[f] # 0

-----------------------------------------------------------------------------
(* C8 *)

\* the names the tag list at the end of the output holds, in order
EmittedTags ==
    LET lines == SelectSeq(out, LAMBDA l : l.line = "tag")
    IN  [i \in 1..Len(lines) |-> lines[i].people[1]]

\* C8: in list-tags mode the names emitted at the end of the traversal are the
\* names found in the metadata files that parse, those without a primary media
\* file included, each once, in ascending lexical order.
C8_TagListIsSortedUnion ==
    (pc = "exited" /\ flags.result = "ok" /\ flags.listTags) =>
        /\ Range(EmittedTags)
              = UNION {NamesOf(jsonPath) :
                          jsonPath \in {m \in MetadataFiles : meta[m].json}}
        /\ \A i, k \in 1..Len(EmittedTags) :
              i < k => StrLess(EmittedTags[i], EmittedTags[k])

\* a list-tags run ended on two records, one of them without its primary media
\* file, with the names Bo, Al and Bo, B, Bo: "Al", "B", "Bo" was emitted
C8_Witness ==
    /\ pc = "exited"
    /\ flags.listTags
    /\ Cardinality(Visited) = 2
    /\ \E jsonPath \in Visited : ~Exists(PrimaryPath(jsonPath))
    /\ \E jsonPath \in Visited : meta[jsonPath] = MetaA
    /\ \E jsonPath \in Visited : meta[jsonPath] = MetaB
    /\ EmittedTags = <<NameAl, NameB, NameBo>>

-----------------------------------------------------------------------------
(* C9 *)

\* assign-people-tags is the mode that runs
AssignPeopleTagsRuns ==
    /\ build = "apple"
    /\ flags.assignPeopleTags
    /\ ~flags.listOnly
    /\ ~flags.setDates

\* C9: in assign-people-tags mode the tags applied for a record are exactly
\* its names that are in the allow-list; if there is none, no tag operation is
\* made for the record, otherwise setFinderTags is called with that one list
\* on every resolved target of the record, the primary and the qualifying
\* companions.
C9_FilteredTagsOnEveryTarget ==
    AssignPeopleTagsRuns =>
        \A jsonPath \in Visited :
            Dispatched(jsonPath) =>
                LET allowed  == NamesOf(jsonPath) \cap Range(flags.peopleTagsToAssign)
                    tagCalls == CallsOf(jsonPath)
                IN  IF allowed = {}
                    THEN tagCalls = <<>>
                    ELSE /\ PathsOf(tagCalls) = ResolvedTargets(PrimaryPath(jsonPath))
                         /\ \A i \in 1..Len(tagCalls) :
                               /\ tagCalls[i].fn = "setFinderTags"
                               /\ Range(tagCalls[i].tags) = allowed
                               /\ tagCalls[i].tags = tagCalls[1].tags

-----------------------------------------------------------------------------
(* C11 *)

\* the orders in which the directory iterator can yield the metadata files
WalkOrders ==
    {o \in [1..Cardinality(MetadataFiles) -> MetadataFiles] :
        \A i, k \in 1..Cardinality(MetadataFiles) : o[i] = o[k] => i = k}

\* the modification times the loop of main() leaves when the metadata files
\* from the i-th on are processed in the given order, starting from the times tm
RECURSIVE MtimeAfterWalk(_, _, _)
MtimeAfterWalk(walkOrder, i, tm) ==
    IF i > Len(walkOrder) THEN tm.mtime
    ELSE MtimeAfterWalk(walkOrder, i + 1,
                        ProcessFile(walkOrder[i], flags, tm, allPeopleTags))

\* C11: after a complete set-file-dates run the modification time of every
\* file is the one the run would have left in any other order of the metadata
\* files: no file is given the times of two different records.
C11_MtimeIndependentOfWalkOrder ==
    (run = "first" /\ pc = "exited" /\ flags.result = "ok" /\ SetDatesRuns) =>
        \A walkOrder \in WalkOrders :
            MtimeAfterWalk(walkOrder, 1,
                           [mtime |-> [f \in Files |-> 0],
                            btime |-> [f \in Files |-> 0]]) = mtime

====
